---- MODULE Spec2Model ----
(***************************************************************************)
(* embedded_lang: translation tables (src/src/language.rs) and the         *)
(* registry of languages with a current and a fallback language            *)
(* (src/src/language_set.rs).                                              *)
(*                                                                         *)
(* Strings that the code splits, joins or compares character by character  *)
(* (lookup keys, the keys of a string table) are sequences of one-character*)
(* strings; translated texts, language names and short codes are only ever *)
(* compared whole and are TLA+ strings.  A byte is a number in 0..255.     *)
(* Option<T> is a sequence of length at most one, Result<T, E> a record    *)
(* with the one field Ok or Err.  A HashMap is a function on its key set.  *)
(***************************************************************************)
EXTENDS Integers, Sequences, FiniteSets, TLC

VARIABLES
    current,    \* LanguageSet.current
    fallback,   \* LanguageSet.fallback
    languages,  \* LanguageSet.languages
    last,       \* the most recent call on the set: [op, args, ret], and in
                \* pre the set as that call found it
    ctor,       \* history: the code the constructor was given
    registered  \* history: every short code inserted so far

vars == <<current, fallback, languages, last, ctor, registered>>

(***************************************************************************)
(* Bounds of the model.                                                    *)
(***************************************************************************)
\* total number of entries (leaves and categories) of a generated table
MaxNodes == 3
\* number of table keys joined into a generated lookup key
MaxPath == 2
\* number of languages handed to LanguageSet::new
MaxInit == 2

(***************************************************************************)
(* Option, Result, HashMap.                                                *)
(***************************************************************************)
None == <<>>
Some(v) == <<v>>
is_some(o) == Len(o) = 1
is_none(o) == Len(o) = 0
and_then(o, F(_)) == IF is_none(o) THEN None ELSE F(o[1])
or(a, b) == IF is_some(a) THEN a ELSE b
ok(o) == IF "Ok" \in DOMAIN o THEN Some(o.Ok) ELSE None
unwrap_or_default(o) == IF is_some(o) THEN o[1] ELSE ""

Ok(v) == [Ok |-> v]
Err(e) == [Err |-> e]
is_ok(r) == "Ok" \in DOMAIN r

EmptyMap == <<>>
map_get(m, k) == IF k \in DOMAIN m THEN Some(m[k]) ELSE None
map_insert(m, k, v) == [x \in DOMAIN m \cup {k} |-> IF x = k THEN v ELSE m[x]]
map_extend(m, other) ==
    [x \in DOMAIN m \cup DOMAIN other |-> IF x \in DOMAIN other THEN other[x] ELSE m[x]]

\* The orders in which a HashMap or HashSet with these elements can be
\* iterated: the order is unspecified, so every one of them.
iter(S) == {s \in [1..Cardinality(S) -> S] : \A x \in S : \E i \in DOMAIN s : s[i] = x}

\* The functions f on D with f[d] \in F(d).
Choices(D, F(_)) == {f \in [D -> UNION {F(d) : d \in D}] : \A d \in D : f[d] \in F(d)}

Range(s) == {s[i] : i \in DOMAIN s}

(***************************************************************************)
(* language.rs: LanguageStringObject.                                      *)
(***************************************************************************)
Sep == "\\"

Direct(s) == [Direct |-> s]
Category(c) == [Category |-> c]
is_direct(n) == "Direct" \in DOMAIN n

\* name.split("\\"): the pieces between separators; never empty.
RECURSIVE split(_)
split(s) ==
    IF \A i \in 1..Len(s) : s[i] # Sep
    THEN <<s>>
    ELSE LET i == CHOOSE i \in 1..Len(s) : s[i] = Sep /\ \A j \in 1..(i - 1) : s[j] # Sep
         IN  <<SubSeq(s, 1, i - 1)>> \o split(SubSeq(s, i + 1, Len(s)))

\* flatten_all's key of one entry: format!("{}\\{}", root_key, e.0), or e.0.
child_key_nosep(root_key, k) == IF is_some(root_key) THEN root_key[1] \o k ELSE k
child_key(root_key, k) == IF is_some(root_key) THEN root_key[1] \o <<Sep>> \o k ELSE k

\* map.extend(..) once per entry, in the order ord, of what each entry flattens to.
RECURSIVE extend_each(_, _, _)
extend_each(map, ord, parts) ==
    IF ord = <<>> THEN map
    ELSE extend_each(map_extend(map, parts[Head(ord)]), Tail(ord), parts)

\* flatten and flatten_all give the set of maps the call can return: one map
\* unless two entries flatten to the same key, and then the entry iterated
\* last wins.
RECURSIVE flatten(_, _), flatten_all(_, _)
flatten(self, own_key) ==
    IF is_direct(self)
    THEN {map_insert(EmptyMap, own_key, self.Direct)}
    ELSE {map_extend(EmptyMap, m) : m \in flatten_all(self.Category, Some(own_key))}

flatten_all(c, root_key) ==
    {extend_each(EmptyMap, ord, parts) :
        ord \in iter(DOMAIN c),
        parts \in Choices(DOMAIN c, LAMBDA k : flatten(c[k], child_key(root_key, k)))}

(***************************************************************************)
(* language.rs: Language.                                                  *)
(***************************************************************************)
Language_new(name, short_name, strings, resources) ==
    [name |-> name, short_name |-> short_name, strings |-> strings,
     resources |-> resources, attachments |-> EmptyMap]

Language_strings(self) == flatten_all(self.strings, None)

\* The for loop of Language::get and the match after it: pos is the
\* position reached, rest the segments not yet consumed.
RECURSIVE get_walk(_, _)
get_walk(pos, rest) ==
    IF rest = <<>>
    THEN IF is_some(pos)
         THEN IF is_direct(pos[1]) THEN Some(pos[1].Direct) ELSE None
         ELSE None
    ELSE IF is_none(pos) THEN None
         ELSE IF is_direct(pos[1]) THEN Some(pos[1].Direct)
              ELSE get_walk(map_get(pos[1].Category, Head(rest)), Tail(rest))

Language_get(self, name) ==
    LET path == split(name)
    IN  IF path = <<>> THEN None
        ELSE get_walk(map_get(self.strings, Head(path)), Tail(path))

\* std::str::from_utf8(bytes).ok(): the text, which is the same bytes, when
\* they are well-formed UTF-8.
is_cont(b) == b >= 128 /\ b <= 191
RECURSIVE valid_utf8(_)
valid_utf8(b) ==
    IF b = <<>> THEN TRUE
    ELSE LET h == Head(b)
             n == Len(b)
         IN  IF h <= 127 THEN valid_utf8(Tail(b))
             ELSE IF h >= 194 /\ h <= 223
                  THEN n >= 2 /\ is_cont(b[2]) /\ valid_utf8(SubSeq(b, 3, n))
             ELSE IF h >= 224 /\ h <= 239
                  THEN /\ n >= 3 /\ is_cont(b[2]) /\ is_cont(b[3])
                       /\ (h = 224 => b[2] >= 160)
                       /\ (h = 237 => b[2] <= 159)
                       /\ valid_utf8(SubSeq(b, 4, n))
             ELSE IF h >= 240 /\ h <= 244
                  THEN /\ n >= 4 /\ is_cont(b[2]) /\ is_cont(b[3]) /\ is_cont(b[4])
                       /\ (h = 240 => b[2] >= 144)
                       /\ (h = 244 => b[2] <= 143)
                       /\ valid_utf8(SubSeq(b, 5, n))
             ELSE FALSE
from_utf8(bytes) == IF valid_utf8(bytes) THEN Ok(bytes) ELSE Err("Utf8Error")

Language_utf8_resource_unchecked(self, name) == map_get(self.resources, name)
Language_utf8_resource(self, name) ==
    and_then(map_get(self.resources, name), LAMBDA bytes : ok(from_utf8(bytes)))

Language_binary_resource(self, name) ==
    and_then(map_get(self.resources, name), LAMBDA bytes : Some(bytes))

\* serde_json::from_str::<Language>(json): a document either decodes to the
\* language it describes or is refused.
Malformed == [malformed |-> TRUE]
from_str(json) ==
    IF "malformed" \in DOMAIN json THEN Err("expected value") ELSE Ok(json)

Language_new_from_string(json, resources) ==
    LET r == from_str(json)
    IN  IF is_ok(r) THEN Ok([r.Ok EXCEPT !.resources = resources]) ELSE Err(r.Err)

\* read is what std::fs::read_to_string(path) gave.
Language_new_from_file(read, resources) ==
    IF is_ok(read) THEN Language_new_from_string(read.Ok, resources) ELSE Err(read.Err)

(***************************************************************************)
(* language_set.rs: LanguageSet.  A set is the record of its three fields; *)
(* a &mut self method gives the set it leaves behind (with the value it    *)
(* returns, when it returns one), a &self method the value it returns.     *)
(***************************************************************************)
RECURSIVE collect(_, _)
collect(map, pairs) ==
    IF pairs = <<>> THEN map
    ELSE collect(map_insert(map, Head(pairs)[1], Head(pairs)[2]), Tail(pairs))

LanguageSet_new_first_wins(fallback_language, langs) ==
    [current |-> fallback_language,
     fallback |-> fallback_language,
     languages |-> [c \in {langs[i].short_name : i \in DOMAIN langs} |->
                      langs[CHOOSE i \in DOMAIN langs :
                                /\ langs[i].short_name = c
                                /\ \A j \in 1..(i - 1) : langs[j].short_name # c]]]
LanguageSet_new(fallback_language, langs) ==
    [current |-> fallback_language,
     fallback |-> fallback_language,
     languages |-> collect(EmptyMap,
                           [i \in DOMAIN langs |-> <<langs[i].short_name, langs[i]>>])]

fallback_language(self) == map_get(self.languages, self.fallback)
current_language(self) == map_get(self.languages, self.current)

add_language_only(self, language) ==
    [self EXCEPT !.languages = map_insert(EmptyMap, language.short_name, language)]
add_language(self, language) ==
    [self EXCEPT !.languages = map_insert(self.languages, language.short_name, language)]

load_language(self, read, resources) ==
    LET r == Language_new_from_file(read, resources)
    IN  IF is_ok(r)
        THEN [self |-> add_language(self, r.Ok), ret |-> Ok(<<>>)]
        ELSE [self |-> self, ret |-> Err(r.Err)]

\* The reports verify can return: the order of each Vec is the order in
\* which the difference is iterated.
verify_missing(self) ==
    IF is_none(fallback_language(self)) THEN {EmptyMap}
    ELSE UNION {
           Choices(DOMAIN self.languages,
                   LAMBDA c : UNION {iter(fb \ DOMAIN m) :
                                       m \in Language_strings(self.languages[c])}) :
           fb \in {DOMAIN m : m \in Language_strings(fallback_language(self)[1])}}
verify(self) ==
    IF is_none(fallback_language(self)) THEN {EmptyMap}
    ELSE UNION {
           Choices(DOMAIN self.languages,
                   LAMBDA c : UNION {iter(DOMAIN m \ fb) :
                                       m \in Language_strings(self.languages[c])}) :
           fb \in {DOMAIN m : m \in Language_strings(fallback_language(self)[1])}}

set_fallback_language_and_current(self, language) ==
    IF language \in DOMAIN self.languages
    THEN [self |-> [self EXCEPT !.fallback = language, !.current = language], ret |-> TRUE]
    ELSE [self |-> self, ret |-> FALSE]
set_fallback_language(self, language) ==
    IF language \in DOMAIN self.languages
    THEN [self |-> [self EXCEPT !.fallback = language], ret |-> TRUE]
    ELSE [self |-> self, ret |-> FALSE]

set_language_unchecked(self, language) ==
    [self |-> [self EXCEPT !.current = language], ret |-> TRUE]
set_language(self, language) ==
    IF language \in DOMAIN self.languages
    THEN [self |-> [self EXCEPT !.current = language], ret |-> TRUE]
    ELSE [self |-> self, ret |-> FALSE]

get_from_lang(self, language, name) ==
    IF language \in DOMAIN self.languages
    THEN Language_get(self.languages[language], name)
    ELSE None

LanguageSet_get_fallback_first(self, name) ==
    or(and_then(fallback_language(self), LAMBDA l : Language_get(l, name)),
       and_then(current_language(self), LAMBDA l : Language_get(l, name)))
LanguageSet_get(self, name) ==
    or(and_then(current_language(self), LAMBDA l : Language_get(l, name)),
       and_then(fallback_language(self), LAMBDA l : Language_get(l, name)))

LanguageSet_utf8_resource(self, name) ==
    or(and_then(current_language(self), LAMBDA l : Language_utf8_resource(l, name)),
       and_then(fallback_language(self), LAMBDA l : Language_utf8_resource(l, name)))

LanguageSet_binary_resource(self, name) ==
    or(and_then(current_language(self), LAMBDA l : Language_binary_resource(l, name)),
       and_then(fallback_language(self), LAMBDA l : Language_binary_resource(l, name)))

\* impl Index<&str> for LanguageSet
index_current_only(self, name) ==
    unwrap_or_default(and_then(current_language(self), LAMBDA l : Language_get(l, name)))
index(self, name) == unwrap_or_default(LanguageSet_get(self, name))

\* macros.rs: get_string!(set, name)
get_string(set, name) == unwrap_or_default(LanguageSet_get(set, name))

(***************************************************************************)
(* The inputs.                                                             *)
(***************************************************************************)
\* Short codes: the two that languages carry, and one that none does.
LanguageCodes == {"en", "fr"}
Codes == LanguageCodes \cup {"foo"}
full_name(short_name) == IF short_name = "en" THEN "English" ELSE "Francais"

\* Tables of the languages a set is built from, after the example files:
\* a text translated differently, a text one language lacks, a category.
PoolKeys == {<<"a">>, <<"b">>, <<"a", Sep, "b">>}
PoolStrings ==
    { map_insert(EmptyMap, <<"a">>, Direct("tree")),
      map_insert(map_insert(EmptyMap, <<"a">>, Direct("arbre")), <<"b">>, Direct("x")),
      map_insert(EmptyMap, <<"a">>,
                 Category(map_insert(EmptyMap, <<"b">>, Direct("bar")))) }

\* Resources: none, "A", "e" with an acute accent, and a truncated sequence.
ResourceNames == {"license_file"}
PoolResources ==
    { EmptyMap,
      map_insert(EmptyMap, "license_file", <<65>>),
      map_insert(EmptyMap, "license_file", <<195, 169>>),
      map_insert(EmptyMap, "license_file", <<195>>) }

\* The languages handed to the set: each differs from the plain one (the
\* first table, no resources) in its table or in its resources.
PoolLanguages ==
    {Language_new(full_name(c), c, s, EmptyMap) : c \in LanguageCodes, s \in PoolStrings}
    \cup {Language_new(full_name(c), c, map_insert(EmptyMap, <<"a">>, Direct("tree")), r) :
             c \in LanguageCodes, r \in PoolResources}

\* What reading a language file can give: an I/O error, or its text, which
\* is malformed or describes a language (resources are not part of it).
Reads ==
    {Err("No such file or directory"), Ok(Malformed)}
    \cup {Ok(Language_new(full_name(c), c, s, EmptyMap)) :
             c \in LanguageCodes, s \in PoolStrings}

\* The resources handed to load_language with the file.
LoadResources ==
    {EmptyMap, map_insert(EmptyMap, "license_file", <<65>>)}

\* Every table with at most n entries in all, its keys among keys, its
\* texts among Texts.
Segs == {<<"a">>, <<"b">>, <<"a", Sep, "b">>}
Texts == {"x", "y"}

RECURSIVE size(_)
size(c) ==
    IF DOMAIN c = {} THEN 0
    ELSE LET k == CHOOSE k \in DOMAIN c : TRUE
             rest == [x \in DOMAIN c \ {k} |-> c[x]]
         IN  1 + (IF is_direct(c[k]) THEN 0 ELSE size(c[k].Category)) + size(rest)

RECURSIVE tables(_, _)
tables(keys, n) ==
    IF keys = {} \/ n = 0 THEN {EmptyMap}
    ELSE LET k == CHOOSE k \in keys : TRUE
             rest == keys \ {k}
             nodes(s) ==
                 (IF s = 1 THEN {Direct(t) : t \in Texts} ELSE {})
                 \cup {Category(c) : c \in {t \in tables(Segs, s - 1) : size(t) = s - 1}}
         IN  tables(rest, n)
             \cup UNION {{map_insert(m, k, nd) : nd \in nodes(s), m \in tables(rest, n - s)} :
                            s \in 1..n}

Tables == tables(Segs, MaxNodes)

\* A path of table keys as the lookup key that names it.
RECURSIVE join(_)
join(path) ==
    IF Len(path) = 1 THEN path[1]
    ELSE path[1] \o <<Sep>> \o join(Tail(path))

Lookups ==
    {<<>>} \cup {join(p) : p \in UNION {[1..n -> Segs] : n \in 1..MaxPath}}

(***************************************************************************)
(* The state machine: the set after construction, then any call on it.     *)
(***************************************************************************)
Self == [current |-> current, fallback |-> fallback, languages |-> languages]

Call(op, args, self, ret) ==
    /\ current' = self.current
    /\ fallback' = self.fallback
    /\ languages' = self.languages
    /\ last' = [op |-> op, args |-> args, ret |-> ret, pre |-> Self]
    /\ registered' = registered \cup DOMAIN self.languages
    /\ UNCHANGED ctor

Constructed(code, langs) ==
    LET self == LanguageSet_new(code, langs)
    IN  /\ current = self.current
        /\ fallback = self.fallback
        /\ languages = self.languages
        /\ last = [op |-> "new", args |-> <<code, langs>>, ret |-> <<>>, pre |-> <<>>]
        /\ ctor = code
        /\ registered = DOMAIN self.languages

Init ==
    \E code \in LanguageCodes, langs \in UNION {[1..n -> PoolLanguages] : n \in 0..MaxInit} :
        Constructed(code, langs)

DoAddLanguage ==
    \E l \in PoolLanguages : Call("add_language", <<l>>, add_language(Self, l), <<>>)

DoLoadLanguage ==
    \E read \in Reads, resources \in LoadResources :
        LET r == load_language(Self, read, resources)
        IN  Call("load_language", <<read, resources>>, r.self, r.ret)

DoSetFallbackLanguage ==
    \E c \in Codes :
        LET r == set_fallback_language(Self, c)
        IN  Call("set_fallback_language", <<c>>, r.self, r.ret)

DoSetLanguage ==
    \E c \in Codes :
        LET r == set_language(Self, c)
        IN  Call("set_language", <<c>>, r.self, r.ret)

DoFallbackLanguage == Call("fallback_language", <<>>, Self, fallback_language(Self))

DoCurrentLanguage == Call("current_language", <<>>, Self, current_language(Self))

DoVerify == \E report \in verify(Self) : Call("verify", <<>>, Self, report)

DoGetFromLang ==
    \E c \in Codes, name \in PoolKeys :
        Call("get_from_lang", <<c, name>>, Self, get_from_lang(Self, c, name))

DoGet == \E name \in PoolKeys : Call("get", <<name>>, Self, LanguageSet_get(Self, name))

DoUtf8Resource ==
    \E name \in ResourceNames :
        Call("utf8_resource", <<name>>, Self, LanguageSet_utf8_resource(Self, name))

DoBinaryResource ==
    \E name \in ResourceNames :
        Call("binary_resource", <<name>>, Self, LanguageSet_binary_resource(Self, name))

DoIndex == \E name \in PoolKeys : Call("index", <<name>>, Self, index(Self, name))

DoGetString == \E name \in PoolKeys : Call("get_string", <<name>>, Self, get_string(Self, name))

Next ==
    \/ DoAddLanguage
    \/ DoLoadLanguage
    \/ DoSetFallbackLanguage
    \/ DoSetLanguage
    \/ DoFallbackLanguage
    \/ DoCurrentLanguage
    \/ DoVerify
    \/ DoGetFromLang
    \/ DoGet
    \/ DoUtf8Resource
    \/ DoBinaryResource
    \/ DoIndex
    \/ DoGetString

Spec == Init /\ [][Next]_vars

(***************************************************************************)
(* One language with any table, and the calls on it: the set holds it as   *)
(* its current language and hands out a reference to it.                   *)
(***************************************************************************)
InitLang ==
    \E strings \in Tables :
        Constructed("en", <<Language_new("English", "en", strings, EmptyMap)>>)

DoLanguageGet ==
    \E name \in Lookups :
        Call("Language::get", <<name>>, Self, Language_get(current_language(Self)[1], name))

DoLanguageStrings ==
    \E map \in Language_strings(current_language(Self)[1]) :
        Call("Language::strings", <<>>, Self, map)

NextLang == DoLanguageGet \/ DoLanguageStrings

SpecLang == InitLang /\ [][NextLang]_vars

(***************************************************************************)
(* Vocabulary of the properties.                                           *)
(***************************************************************************)
\* What the language registered under code answers for name; a miss when
\* no language is registered under code.
Answer(code, name) ==
    IF code \in DOMAIN languages THEN Language_get(languages[code], name) ELSE None

\* Current before fallback.
TwoTier(cur, fb) == IF is_some(cur) THEN cur ELSE IF is_some(fb) THEN fb ELSE None

\* The bytes stored under name by the language registered under code.
HasResource(code, name) ==
    code \in DOMAIN languages /\ name \in DOMAIN languages[code].resources
ResourceBytes(code, name) == languages[code].resources[name]
HasText(code, name) == HasResource(code, name) /\ valid_utf8(ResourceBytes(code, name))

\* The keys of a language's flattened table.
FlatKeys(l) == UNION {DOMAIN m : m \in Language_strings(l)}

\* The paths of table keys that end at a leaf.
RECURSIVE LeafPaths(_)
LeafPaths(c) ==
    UNION {IF is_direct(c[k]) THEN {<<k>>}
           ELSE {<<k>> \o p : p \in LeafPaths(c[k].Category)} : k \in DOMAIN c}

\* The node a path of table keys leads to.
RECURSIVE NodeAt(_, _)
NodeAt(c, path) ==
    IF Head(path) \notin DOMAIN c THEN None
    ELSE IF Len(path) = 1 THEN Some(c[Head(path)])
    ELSE IF is_direct(c[Head(path)]) THEN None
    ELSE NodeAt(c[Head(path)].Category, Tail(path))

\* Walking the segments reaches a leaf with segments left over.
LeafBeforeEnd(c, segments) ==
    \E i \in 1..(Len(segments) - 1) :
        LET n == NodeAt(c, SubSeq(segments, 1, i))
        IN  is_some(n) /\ is_direct(n[1])

\* No key of the table, at any depth, contains the separator.
RECURSIVE NoSepInKeys(_)
NoSepInKeys(c) ==
    \A k \in DOMAIN c :
        /\ \A i \in 1..Len(k) : k[i] # Sep
        /\ is_direct(c[k]) \/ NoSepInKeys(c[k].Category)

TheLanguage == languages[current]

(***************************************************************************)
(* C1.  get resolves current before fallback: what the current language    *)
(* answers is returned when it answers; otherwise what the fallback        *)
(* language answers; otherwise a miss.  The two are never merged.          *)
(***************************************************************************)
C1_GetTwoTier ==
    last.op = "get" =>
        LET cur == Answer(current, last.args[1])
            fb == Answer(fallback, last.args[1])
        IN  /\ is_some(cur) => last.ret = cur
            /\ is_none(cur) /\ is_some(fb) => last.ret = fb
            /\ is_none(cur) /\ is_none(fb) => last.ret = None

\* get returned the current language's text although the fallback has another.
C1_Witness ==
    /\ last.op = "get"
    /\ is_some(Answer(current, last.args[1]))
    /\ is_some(Answer(fallback, last.args[1]))
    /\ Answer(current, last.args[1]) # Answer(fallback, last.args[1])
    /\ last.ret = Answer(current, last.args[1])

(***************************************************************************)
(* C2.  A lookup whose walk reaches a leaf before all segments of the key  *)
(* are consumed is a miss.                                                 *)
(***************************************************************************)
C2_LeafBeforeEndMisses ==
    (/\ last.op = "Language::get"
     /\ LeafBeforeEnd(TheLanguage.strings, split(last.args[1])))
    => last.ret = None

(***************************************************************************)
(* C3.  set_language and set_fallback_language: an unregistered code is    *)
(* refused with false and the field keeps its value; a registered code is  *)
(* accepted with true and the field is the code afterwards.                *)
(***************************************************************************)
C3_Setters ==
    /\ last.op = "set_language" =>
           IF last.args[1] \in DOMAIN last.pre.languages
           THEN last.ret = TRUE /\ current = last.args[1]
           ELSE last.ret = FALSE /\ current = last.pre.current
    /\ last.op = "set_fallback_language" =>
           IF last.args[1] \in DOMAIN last.pre.languages
           THEN last.ret = TRUE /\ fallback = last.args[1]
           ELSE last.ret = FALSE /\ fallback = last.pre.fallback

\* A code was refused after another had been accepted, and the accepted one stays.
C3_Witness ==
    /\ last.op = "set_fallback_language"
    /\ last.ret = FALSE
    /\ last.args[1] \notin DOMAIN languages
    /\ fallback \in DOMAIN languages
    /\ fallback # ctor

(***************************************************************************)
(* C4.  Whenever a path of table keys names a leaf, the flattened table    *)
(* has the joined path as a key and holds under it what get returns for    *)
(* the joined path.  As stated, for every table; as amended, for tables    *)
(* none of whose keys contains the separator.                              *)
(***************************************************************************)
C4_FlattenAgreesWithGet ==
    last.op = "Language::strings" =>
        \A p \in LeafPaths(TheLanguage.strings) :
            /\ join(p) \in DOMAIN last.ret
            /\ Language_get(TheLanguage, join(p)) = Some(last.ret[join(p)])

C4_FlattenAgreesWithGet_NoSep ==
    (last.op = "Language::strings" /\ NoSepInKeys(TheLanguage.strings)) =>
        \A p \in LeafPaths(TheLanguage.strings) :
            /\ join(p) \in DOMAIN last.ret
            /\ Language_get(TheLanguage, join(p)) = Some(last.ret[join(p)])

\* A table with a leaf inside a category inside a category was flattened.
C4_Witness ==
    /\ last.op = "Language::strings"
    /\ NoSepInKeys(TheLanguage.strings)
    /\ \E p \in LeafPaths(TheLanguage.strings) :
           Len(p) = 3 /\ join(p) \in DOMAIN last.ret

C6_VerifyMissingKeys ==
    (last.op = "verify" /\ fallback \in DOMAIN languages) =>
        /\ DOMAIN last.ret = DOMAIN languages
        /\ \A c \in DOMAIN languages :
               Range(last.ret[c]) = FlatKeys(languages[fallback]) \ FlatKeys(languages[c])

(***************************************************************************)
(* C7.  Indexing the set and get_string! give the text get finds, and the  *)
(* empty text when get misses.                                             *)
(***************************************************************************)
C7_IndexIsGetOrEmpty ==
    last.op \in {"index", "get_string"} =>
        LET found == TwoTier(Answer(current, last.args[1]), Answer(fallback, last.args[1]))
        IN  IF is_some(found) THEN last.ret = found[1] ELSE last.ret = ""

\* Indexing found the text in the fallback language only.
C7_Witness ==
    /\ last.op = "index"
    /\ current \in DOMAIN languages
    /\ is_none(Answer(current, last.args[1]))
    /\ is_some(Answer(fallback, last.args[1]))
    /\ last.ret = Answer(fallback, last.args[1])[1]

(***************************************************************************)
(* C8.  new(code, languages): current and fallback are code; one entry per *)
(* short code among the languages, the last language with that code; when  *)
(* no language carries code, current_language and fallback_language miss.  *)
(***************************************************************************)
C8_New ==
    last.op = "new" =>
        LET code == last.args[1]
            langs == last.args[2]
            names == {langs[i].short_name : i \in DOMAIN langs}
        IN  /\ current = code
            /\ fallback = code
            /\ DOMAIN languages = names
            /\ \A i \in DOMAIN langs :
                   (\A j \in DOMAIN langs : j > i => langs[j].short_name # langs[i].short_name)
                   => languages[langs[i].short_name] = langs[i]
            /\ code \notin names =>
                   is_none(current_language(Self)) /\ is_none(fallback_language(Self))

\* Two different languages with one short code, which is not the fallback code.
C8_Witness ==
    /\ last.op = "new"
    /\ Len(last.args[2]) = 2
    /\ last.args[2][1].short_name = last.args[2][2].short_name
    /\ last.args[2][1] # last.args[2][2]
    /\ last.args[1] \notin DOMAIN languages

(***************************************************************************)
(* C9.  binary_resource gives the current language's bytes under the name, *)
(* else the fallback language's, else a miss; utf8_resource likewise, bytes*)
(* that are not UTF-8 counting as absent.                                  *)
(***************************************************************************)
C9_ResourcesTwoTier ==
    /\ last.op = "binary_resource" =>
           last.ret = IF HasResource(current, last.args[1])
                      THEN Some(ResourceBytes(current, last.args[1]))
                      ELSE IF HasResource(fallback, last.args[1])
                           THEN Some(ResourceBytes(fallback, last.args[1]))
                           ELSE None
    /\ last.op = "utf8_resource" =>
           last.ret = IF HasText(current, last.args[1])
                      THEN Some(ResourceBytes(current, last.args[1]))
                      ELSE IF HasText(fallback, last.args[1])
                           THEN Some(ResourceBytes(fallback, last.args[1]))
                           ELSE None

\* The current language's resource is not UTF-8 and the fallback's was returned.
C9_Witness ==
    /\ last.op = "utf8_resource"
    /\ HasResource(current, last.args[1])
    /\ ~HasText(current, last.args[1])
    /\ HasText(fallback, last.args[1])
    /\ last.ret = Some(ResourceBytes(fallback, last.args[1]))

(***************************************************************************)
(* C10.  No call removes a registered short code; once current_language    *)
(* (fallback_language) finds a language it does so ever after; and it      *)
(* misses only while the constructor's code has never been registered.     *)
(***************************************************************************)
C10_Monotone ==
    /\ is_none(current_language(Self)) => ctor \notin registered
    /\ is_none(fallback_language(Self)) => ctor \notin registered
    /\ last.op # "new" =>
           /\ DOMAIN last.pre.languages \subseteq DOMAIN languages
           /\ is_some(current_language(last.pre)) => is_some(current_language(Self))
           /\ is_some(fallback_language(last.pre)) => is_some(fallback_language(Self))

\* The current language was replaced and still resolves, while the fallback
\* is the constructor's code, which no language has carried yet.
C10_Witness ==
    /\ last.op = "add_language"
    /\ last.args[1].short_name = current
    /\ is_some(current_language(last.pre))
    /\ current_language(last.pre) # current_language(Self)
    /\ current # ctor
    /\ fallback = ctor
    /\ ctor \notin registered

(***************************************************************************)
(* C11.  Each mutating call changes only its own part of the set:          *)
(* set_language leaves fallback and the languages map as they were,        *)
(* set_fallback_language leaves current and the languages map as they      *)
(* were, add_language(L) leaves current and fallback as they were and      *)
(* changes no entry of the map but the one under L's short code, which is  *)
(* L afterwards; get, get_from_lang, verify, the resource lookups and      *)
(* indexing leave the whole set as it was.                                 *)
(***************************************************************************)
ReadOps ==
    {"get", "get_from_lang", "verify", "utf8_resource", "binary_resource", "index"}

C11_Frame ==
    /\ last.op = "set_language" =>
           /\ fallback = last.pre.fallback
           /\ languages = last.pre.languages
    /\ last.op = "set_fallback_language" =>
           /\ current = last.pre.current
           /\ languages = last.pre.languages
    /\ last.op = "add_language" =>
           /\ current = last.pre.current
           /\ fallback = last.pre.fallback
           /\ DOMAIN languages = DOMAIN last.pre.languages \cup {last.args[1].short_name}
           /\ languages[last.args[1].short_name] = last.args[1]
           /\ \A c \in DOMAIN last.pre.languages :
                  c # last.args[1].short_name => languages[c] = last.pre.languages[c]
    /\ last.op \in ReadOps => Self = last.pre

\* add_language replaced one entry of a set that holds another language
\* too, while current and fallback name different codes.
C11_Witness ==
    /\ last.op = "add_language"
    /\ last.args[1].short_name \in DOMAIN last.pre.languages
    /\ last.pre.languages[last.args[1].short_name] # last.args[1]
    /\ \E c \in DOMAIN last.pre.languages : c # last.args[1].short_name
    /\ current # fallback

====
